---------------------------- MODULE Spec2Model ----------------------------
(***************************************************************************)
(* A model of the Greenland combinations viewer (src/app.js): the global   *)
(* state of the page, the two data fetches of init, and one action per     *)
(* event handler or timer callback.                                        *)
(*                                                                         *)
(* JavaScript strings are modelled as TLA+ strings when they are only      *)
(* compared for equality (state names), and as sequences of one-character  *)
(* strings where the code looks inside them (toLowerCase, includes, trim,  *)
(* the default sort order): Chars gives the characters of a state name.    *)
(* Array indices are 0-based as in the code; Seq positions are index + 1.  *)
(* The stacking order of the map layers (bringToFront) is not modelled.    *)
(***************************************************************************)
EXTENDS Integers, Sequences, FiniteSets, TLC

VARIABLES
    statesFetch,         \* promise of loadStatesGeoJSON(): pending/fulfilled/rejected
    combosFetch,         \* promise of loadCombinations()
    initPc,              \* init(): "awaiting" Promise.all, "done", "rejected"
    statesGeoJSON,       \* the parsed geometry file: sequence of feature names
    combinationsData,    \* the parsed combinations file
    stats,               \* #greenland-area and #combo-count texts
    layout,              \* mobile flag, hidden panels, active tab
    statesLayer,         \* layer name -> path style, once renderStates has run
    allStateNames,       \* sorted names for the typeahead
    selectedComboIndex,  \* null or an index into combinationsData.combinations
    selectedStates,      \* the multi-select filter, in order of addition
    highlightedIndex,    \* -1 or the highlighted dropdown position
    rows,                \* the .combo-item elements of #combinations
    headerText,          \* .list-header span: count and filter text
    filterTags,          \* the .filter-tag elements of #selected-filters
    filterTotal,         \* #filter-total
    infoPanel,           \* #selected-info
    searchValue,         \* value of #state-search
    focused,             \* whether #state-search has the focus
    dropdownItems,       \* the .dropdown-item elements of #search-dropdown
    dropdownHidden,      \* #search-dropdown carries class hidden
    timers,              \* pending setTimeout callbacks, in scheduling order
    viewport,            \* the last map view set
    pointer              \* the layer under the mouse pointer, if any

vars == <<statesFetch, combosFetch, initPc, statesGeoJSON, combinationsData,
          stats, layout, statesLayer, allStateNames, selectedComboIndex,
          selectedStates, highlightedIndex, rows, headerText, filterTags,
          filterTotal, infoPanel, searchValue, focused, dropdownItems,
          dropdownHidden, timers, viewport, pointer>>

\* JavaScript's undefined, for the globals not yet assigned.
undefined == "undefined"
\* JavaScript's null as the value of selectedComboIndex: no valid index.
null == -1
\* The pointer is over no layer of the map.
nowhere == "nowhere"

-----------------------------------------------------------------------------
(* Bounds of the model *)

\* Pending setTimeout callbacks at any time.
MaxTimers == 2
\* States a user puts in the filter at the same time.
MaxFilter == 2
\* States in the filter at the same time, on the wide geometry file.
MaxWideFilter == 1
\* Combinations of the long combinations file.
BigCount == 502

-----------------------------------------------------------------------------
(* Sequence helpers standing for the Array methods the code uses *)

Range(s) == {s[i] : i \in DOMAIN s}

\* Array.prototype.includes
includes(arr, x) == \E i \in DOMAIN arr : arr[i] = x

\* Array.prototype.every over a membership test
RECURSIVE everyIncluded(_, _)
everyIncluded(sel, arr) ==
    IF sel = <<>> THEN TRUE
    ELSE includes(arr, Head(sel)) /\ everyIncluded(Tail(sel), arr)

\* Array.prototype.slice(0, n)
slice0(arr, n) == SubSeq(arr, 1, IF n < Len(arr) THEN n ELSE Len(arr))

Min(a, b) == IF a < b THEN a ELSE b
Max(a, b) == IF a > b THEN a ELSE b

-----------------------------------------------------------------------------
(* JavaScript strings as sequences of characters *)

UpperCase == <<"A", "B", "C", "D", "E", "F", "G", "H", "I", "J", "K", "L", "M", "N", "O", "P", "Q", "R", "S", "T", "U", "V", "W", "X", "Y", "Z">>
LowerCase == <<"a", "b", "c", "d", "e", "f", "g", "h", "i", "j", "k", "l", "m", "n", "o", "p", "q", "r", "s", "t", "u", "v", "w", "x", "y", "z">>

\* The characters that occur in the names and in the text typed.
Alphabet == Range(UpperCase) \cup Range(LowerCase) \cup {" "}

\* The UTF-16 code unit of each character of the alphabet.
CodeUnits ==
    [c \in Alphabet |->
        IF c = " " THEN 32
        ELSE IF \E i \in DOMAIN UpperCase : UpperCase[i] = c
             THEN 64 + (CHOOSE i \in DOMAIN UpperCase : UpperCase[i] = c)
             ELSE 96 + (CHOOSE i \in DOMAIN LowerCase : LowerCase[i] = c)]

CodeUnit(c) == CodeUnits[c]

\* The lower-case form of each character of the alphabet.
LowerCaseOf ==
    [c \in Alphabet |->
        IF \E k \in DOMAIN UpperCase : UpperCase[k] = c
        THEN LowerCase[CHOOSE k \in DOMAIN UpperCase : UpperCase[k] = c]
        ELSE c]

\* The characters of each state name that occurs in a geometry file.
CharTable ==
    "Iowa" :> <<"I", "o", "w", "a">> @@
    "Ohio" :> <<"O", "h", "i", "o">> @@
    "Utah" :> <<"U", "t", "a", "h">> @@
    "Idaho" :> <<"I", "d", "a", "h", "o">> @@
    "Maine" :> <<"M", "a", "i", "n", "e">> @@
    "Texas" :> <<"T", "e", "x", "a", "s">> @@
    "Kansas" :> <<"K", "a", "n", "s", "a", "s">> @@
    "Nevada" :> <<"N", "e", "v", "a", "d", "a">> @@
    "Alabama" :> <<"A", "l", "a", "b", "a", "m", "a">> @@
    "Indiana" :> <<"I", "n", "d", "i", "a", "n", "a">> @@
    "Guam" :> <<"G", "u", "a", "m">> @@
    "Alaska" :> <<"A", "l", "a", "s", "k", "a">> @@
    "Hawaii" :> <<"H", "a", "w", "a", "i", "i">> @@
    "Puerto Rico" :> <<"P", "u", "e", "r", "t", "o", " ", "R", "i", "c", "o">> @@
    "District of Columbia" :> <<"D", "i", "s", "t", "r", "i", "c", "t", " ", "o", "f", " ", "C", "o", "l", "u", "m", "b", "i", "a">>

Chars(name) == CharTable[name]

\* String.prototype.toLowerCase
toLowerCase(str) == [i \in DOMAIN str |-> LowerCaseOf[str[i]]]

\* String.prototype.includes
strIncludes(str, search) ==
    \E i \in 0..(Len(str) - Len(search)) :
        SubSeq(str, i + 1, i + Len(search)) = search

\* String.prototype.trim
RECURSIVE trimStart(_)
trimStart(str) ==
    IF str # <<>> /\ Head(str) = " " THEN trimStart(Tail(str)) ELSE str

RECURSIVE trimEnd(_)
trimEnd(str) ==
    IF str # <<>> /\ str[Len(str)] = " "
    THEN trimEnd(SubSeq(str, 1, Len(str) - 1)) ELSE str

trim(str) == trimEnd(trimStart(str))

\* The comparison of Array.prototype.sort without a comparator: strings
\* are ordered by their UTF-16 code units.
RECURSIVE strLess(_, _)
strLess(a, b) ==
    IF a = <<>> THEN b # <<>>
    ELSE IF b = <<>> THEN FALSE
    ELSE IF CodeUnit(Head(a)) # CodeUnit(Head(b))
         THEN CodeUnit(Head(a)) < CodeUnit(Head(b))
         ELSE strLess(Tail(a), Tail(b))

\* Insert name into the sorted array arr, after the elements not greater.
RECURSIVE insertSorted(_, _)
insertSorted(arr, name) ==
    IF arr = <<>> THEN <<name>>
    ELSE IF strLess(Chars(name), Chars(Head(arr)))
         THEN <<name>> \o arr
         ELSE <<Head(arr)>> \o insertSorted(Tail(arr), name)

\* Array.prototype.sort (stable) on an array of state names.
RECURSIVE sort(_)
sort(arr) ==
    IF arr = <<>> THEN <<>>
    ELSE insertSorted(sort(SubSeq(arr, 1, Len(arr) - 1)), arr[Len(arr)])

-----------------------------------------------------------------------------
(* Constants of the program *)

\* The entries of stateAreas for the state names of the model.
stateAreas ==
    "Alabama" :> 135767 @@ "Idaho" :> 216443 @@ "Indiana" :> 94326 @@
    "Iowa" :> 145746 @@ "Kansas" :> 213100 @@ "Maine" :> 91633 @@
    "Nevada" :> 286380 @@ "Ohio" :> 116098 @@ "Texas" :> 695662 @@
    "Utah" :> 219882

GREENLAND_AREA == 2166086

\* A path style; fillOpacity in tenths.
defaultStyle ==
    [fillColor |-> "#1a4670", weight |-> 1, opacity |-> 1,
     color |-> "#0f3460", fillOpacity |-> 6]

hoverStyle ==
    [fillColor |-> "#4cc9f0", weight |-> 2, color |-> "#4cc9f0",
     fillOpacity |-> 3]

selectedStyle ==
    [fillColor |-> "#e94560", weight |-> 2, opacity |-> 1,
     color |-> "#ff6b6b", fillOpacity |-> 7]

\* The style object literal of highlightFilteredStates.
filterStyle ==
    [fillColor |-> "#4cc9f0", weight |-> 2, color |-> "#4cc9f0",
     fillOpacity |-> 4]

\* Rows rendered at most by renderCombinations.
ROW_LIMIT == 500
\* Items offered at most by showDropdown.
DROPDOWN_LIMIT == 8
\* Delay of the deferred fitBounds of selectCombination, in ms.
FIT_DELAY == 100
\* Delay of the deferred hideDropdown of the blur handler, in ms.
HIDE_DELAY == 150

\* Leaflet's Path.setStyle: the given options replace the layer's, the
\* others stay.
setStyle(options, style) ==
    [k \in DOMAIN options |->
        IF k \in DOMAIN style THEN style[k] ELSE options[k]]

-----------------------------------------------------------------------------
(* Input files *)

\* data/us-states.json as shipped: the states, with Alaska, Hawaii, Puerto
\* Rico and the District of Columbia among them, in file order.
StandardGeometry ==
    <<"Utah", "Alaska", "Ohio", "Hawaii", "Iowa", "Puerto Rico",
      "District of Columbia">>

\* A geometry file that also holds a territory.
TerritoryGeometry ==
    <<"Utah", "Alaska", "Guam", "Ohio", "Hawaii", "Iowa", "Puerto Rico",
      "District of Columbia">>

\* A geometry file with more states than the dropdown offers.
WideGeometry ==
    <<"Utah", "Texas", "Alaska", "Ohio", "Nevada", "Hawaii", "Iowa",
      "Maine", "Puerto Rico", "Kansas", "Indiana", "Idaho",
      "District of Columbia", "Alabama">>

RECURSIVE sumAreas(_)
sumAreas(states) ==
    IF states = <<>> THEN 0
    ELSE stateAreas[Head(states)] + sumAreas(Tail(states))

Combination(states) == [states |-> states, total_km2 |-> sumAreas(states)]

\* data/combinations.json with a few combinations.
SmallCombinations ==
    [greenland_km2 |-> GREENLAND_AREA,
     combinations |->
        <<Combination(<<"Iowa", "Ohio">>),
          Combination(<<"Ohio", "Utah">>),
          Combination(<<"Iowa", "Ohio", "Utah">>)>>]

\* data/combinations.json with more combinations than the list renders:
\* the second is Utah alone, every third is Iowa and Ohio, the others are
\* Ohio and Utah.
BigCombinations ==
    [greenland_km2 |-> GREENLAND_AREA,
     combinations |->
        [i \in 1..BigCount |->
            IF i = 2 THEN Combination(<<"Utah">>)
            ELSE IF i % 3 = 1 THEN Combination(<<"Iowa", "Ohio">>)
            ELSE Combination(<<"Ohio", "Utah">>)]]

-----------------------------------------------------------------------------
(* The Combination Enumerator, which writes data/combinations.json. Its   *)
(* script is not among the sources; it is modelled from its description:  *)
(* a search of the connected subsets of the adjacency graph that grows a  *)
(* set by a state adjacent to it, abandons a set whose area passes the    *)
(* target by more than the tolerance or whose size passes the maximum,    *)
(* keeps each set once, and writes the sets within the tolerance ordered  *)
(* by area and then by their sorted names.                                *)

\* The adjacency graph: each state with the states it borders.
AdjacencyGraph ==
    "Idaho" :> {"Nevada", "Utah"} @@
    "Nevada" :> {"Idaho", "Utah"} @@
    "Utah" :> {"Idaho", "Nevada"} @@
    "Indiana" :> {"Ohio"} @@
    "Ohio" :> {"Indiana"} @@
    "Kansas" :> {} @@
    "Iowa" :> {}

\* The runs of the enumerator: target area, tolerance and maximum size.
EnumeratorRuns ==
    {[target |-> 500000, tolerance |-> 70000, maxSize |-> 4],
     [target |-> 600000, tolerance |-> 130000, maxSize |-> 3],
     [target |-> 213000, tolerance |-> 7000, maxSize |-> 4]}

\* The total area of a set of states.
RECURSIVE totalArea(_)
totalArea(group) ==
    IF group = {} THEN 0
    ELSE LET s == CHOOSE x \in group : TRUE
         IN  stateAreas[s] + totalArea(group \ {s})

\* The states a set can grow by: any state outside it.
frontierAny(graph, group) == DOMAIN graph \ group

\* The states a set can grow by: those adjacent to one of its states.
frontier(graph, group) == (UNION {graph[s] : s \in group}) \ group

\* The sets the search reaches with at most size states.
RECURSIVE search(_, _, _)
search(graph, limit, size) ==
    IF size = 1
    THEN {{s} : s \in {n \in DOMAIN graph : stateAreas[n] <= limit}}
    ELSE LET smaller == search(graph, limit, size - 1)
         IN  smaller \cup
             {grown \in UNION {{group \cup {n} : n \in frontier(graph, group)} :
                               group \in smaller} :
                 totalArea(grown) <= limit}

\* The sets retained: those within the tolerance of the target.
retained(graph, run) ==
    {group \in search(graph, run.target + run.tolerance, run.maxSize) :
        /\ totalArea(group) >= run.target - run.tolerance
        /\ totalArea(group) <= run.target + run.tolerance}

\* The canonical form of a set: its names in sorted order.
RECURSIVE canonical(_)
canonical(group) ==
    IF group = {} THEN <<>>
    ELSE LET first == CHOOSE x \in group :
                          \A y \in group \ {x} : strLess(Chars(x), Chars(y))
         IN  <<first>> \o canonical(group \ {first})

\* The order of two sequences of names, name by name.
RECURSIVE namesLess(_, _)
namesLess(a, b) ==
    IF a = <<>> THEN b # <<>>
    ELSE IF b = <<>> THEN FALSE
    ELSE IF Head(a) # Head(b)
         THEN strLess(Chars(Head(a)), Chars(Head(b)))
         ELSE namesLess(Tail(a), Tail(b))

\* The order of the output: by total area, then by names.
before(g, h) ==
    \/ totalArea(g) < totalArea(h)
    \/ totalArea(g) = totalArea(h) /\ namesLess(canonical(g), canonical(h))

\* The retained sets as the list of the output file.
RECURSIVE serialized(_)
serialized(groups) ==
    IF groups = {} THEN <<>>
    ELSE LET first == CHOOSE g \in groups :
                          \A h \in groups \ {g} : before(g, h)
         IN  <<[states |-> canonical(first), total_km2 |-> totalArea(first)]>>
             \o serialized(groups \ {first})

\* data/combinations.json as one run of the enumerator writes it.
enumerate(graph, run) ==
    [greenland_km2 |-> run.target,
     combinations |-> serialized(retained(graph, run))]

\* The files of the runs, and a geometry file with the states of the graph.
EnumeratedCombinations ==
    {enumerate(AdjacencyGraph, run) : run \in EnumeratorRuns}

GraphGeometry ==
    <<"Utah", "Alaska", "Ohio", "Nevada", "Hawaii", "Iowa", "Kansas",
      "Indiana", "Idaho">>

-----------------------------------------------------------------------------
(* The computations of the handlers, as functions of the state they read *)

\* renderStates: the features kept for the map.
lower48(features) ==
    SelectSeq(features, LAMBDA name :
        name # "Alaska" /\ name # "Hawaii" /\
        name # "Puerto Rico" /\ name # "District of Columbia")

\* The objects of a parsed array: every element is an object of its own,
\* identified here by its position.
objectsOf(arr) == [i \in DOMAIN arr |-> i - 1]

\* Array.prototype.indexOf on objects: the first position holding the same
\* object, or -1.
indexOf(objs, o) ==
    LET found == {i \in DOMAIN objs : objs[i] = o}
    IN  IF found = {} THEN -1
        ELSE (CHOOSE i \in found : \A j \in found : i <= j) - 1

\* The filter callback with some in the place of every.
passesSome(combo, sel) ==
    IF Len(sel) = 0 THEN TRUE
    ELSE \E i \in DOMAIN sel : includes(combo.states, sel[i])

\* renderCombinations: the filter callback.
passes(combo, sel) ==
    IF Len(sel) = 0 THEN TRUE
    ELSE everyIncluded(sel, combo.states)

\* renderCombinations: the combinations that pass, as objects.
filtered(data, sel) ==
    SelectSeq(objectsOf(data.combinations),
              LAMBDA o : passes(data.combinations[o + 1], sel))

\* The combinations rendered without the limit.
toRenderAll(data, sel) == filtered(data, sel)

\* renderCombinations: the combinations rendered.
toRender(data, sel) ==
    LET passing == filtered(data, sel)
    IN  slice0(passing, Min(Len(passing), ROW_LIMIT))

\* createComboItem without the class of the selected combination.
createComboItemUnmarked(combo, idx, sci) ==
    [index |-> idx,
     selected |-> FALSE,
     count |-> Len(combo.states),
     area |-> combo.total_km2,
     states |-> combo.states]

\* createComboItem: the element of one combination.
createComboItem(combo, idx, sci) ==
    [index |-> idx,
     selected |-> (idx = sci),
     count |-> Len(combo.states),
     area |-> combo.total_km2,
     states |-> combo.states]

\* The rows carrying the position of their combination among those that
\* pass the filter.
renderedRowsByPosition(data, sel, sci) ==
    LET shown == toRender(data, sel)
    IN  [k \in DOMAIN shown |->
            createComboItem(data.combinations[shown[k] + 1], k - 1, sci)]

\* renderCombinations: the children of #combinations.
renderedRows(data, sel, sci) ==
    LET shown == toRender(data, sel)
        objs == objectsOf(data.combinations)
    IN  [k \in DOMAIN shown |->
            createComboItem(data.combinations[shown[k] + 1],
                            indexOf(objs, shown[k]), sci)]

\* The header counting the rows rendered.
renderedHeaderOfRows(data, sel) ==
    [count |-> Len(toRender(data, sel)), containing |-> sel]

\* renderCombinations: the header, its count and the states it names.
renderedHeader(data, sel) ==
    [count |-> Len(filtered(data, sel)), containing |-> sel]

\* updateFilterTotal; the percentage in tenths, rounded to the nearest.
updateFilterTotal(sel) ==
    IF Len(sel) = 0 THEN [hidden |-> TRUE]
    ELSE LET areaOf(s) ==
                 IF s \in DOMAIN stateAreas THEN stateAreas[s] ELSE 0
             sum[i \in 0..Len(sel)] ==
                 IF i = 0 THEN 0 ELSE sum[i - 1] + areaOf(sel[i])
             total == sum[Len(sel)]
         IN  [hidden |-> FALSE,
              total |-> total,
              percent |-> (2000 * total + GREENLAND_AREA)
                              \div (2 * GREENLAND_AREA),
              remaining |-> IF GREENLAND_AREA - total > 0
                            THEN GREENLAND_AREA - total ELSE null]

\* resetMapStyles
resetMapStyles(layer) ==
    [name \in DOMAIN layer |-> setStyle(layer[name], defaultStyle)]

\* highlightFilteredStates
highlightFilteredStates(layer, sel, sci) ==
    [name \in DOMAIN layer |->
        IF includes(sel, name) THEN setStyle(layer[name], filterStyle)
        ELSE IF sci = null THEN setStyle(layer[name], defaultStyle)
        ELSE layer[name]]

\* selectCombination: the member layers get the selected style.
highlightCombination(layer, combo) ==
    [name \in DOMAIN layer |->
        IF includes(combo.states, name)
        THEN setStyle(layer[name], selectedStyle)
        ELSE layer[name]]

\* selectCombination: the layers of the group whose bounds are fitted.
selectedLayers(layer, combo) ==
    {name \in DOMAIN layer : includes(combo.states, name)}

\* showDropdown comparing the name and the query as they are written.
matchesCaseSensitive(names, query, sel) ==
    SelectSeq(names, LAMBDA name :
        strIncludes(Chars(name), query) /\ ~includes(sel, name))

\* showDropdown: the names that match the query.
matches(names, query, sel) ==
    SelectSeq(names, LAMBDA name :
        strIncludes(toLowerCase(Chars(name)), toLowerCase(query))
        /\ ~includes(sel, name))

\* showDropdown: the items built.
dropdownOffer(names, query, sel, hi) ==
    LET shown == slice0(matches(names, query, sel), DROPDOWN_LIMIT)
    IN  [k \in DOMAIN shown |->
            [text |-> shown[k], highlighted |-> (k - 1 = hi)]]

\* updateDropdownHighlight
updateDropdownHighlight(items, hi) ==
    [k \in DOMAIN items |->
        [text |-> items[k].text, highlighted |-> (k - 1 = hi)]]

-----------------------------------------------------------------------------
(* The initial state: init has run up to its await. narrow holds the     *)
(* outcomes of window.innerWidth <= 768 considered.                       *)

InitOn(narrow) ==
    /\ statesFetch = "pending"
    /\ combosFetch = "pending"
    /\ initPc = "awaiting"
    /\ statesGeoJSON = undefined
    /\ combinationsData = undefined
    /\ stats = undefined
    /\ \E mobile \in narrow :
          layout = [mobile |-> mobile, mapHidden |-> mobile,
                    sidebarHidden |-> FALSE, activeTab |-> "list"]
    /\ statesLayer = undefined
    /\ allStateNames = <<>>
    /\ selectedComboIndex = null
    /\ selectedStates = <<>>
    /\ highlightedIndex = -1
    /\ rows = <<>>
    /\ headerText = undefined
    /\ filterTags = <<>>
    /\ filterTotal = [hidden |-> TRUE]
    /\ infoPanel = [hidden |-> TRUE, states |-> <<>>, area |-> 0]
    /\ searchValue = <<>>
    /\ focused = FALSE
    /\ dropdownItems = <<>>
    /\ dropdownHidden = TRUE
    /\ timers = <<>>
    /\ viewport = [fit |-> {}, padding |-> 0]
    /\ pointer = nowhere

loadVars == <<statesFetch, combosFetch, initPc, statesGeoJSON,
              combinationsData, stats>>
listVars == <<rows, headerText, filterTags, filterTotal>>
searchVars == <<searchValue, focused, dropdownItems, dropdownHidden,
                highlightedIndex>>

-----------------------------------------------------------------------------
(* init and the two loads *)

\* loadStatesGeoJSON: the fetch and the parse succeed with file features.
loadStatesGeoJSON(features) ==
    /\ statesFetch = "pending"
    /\ statesFetch' = "fulfilled"
    /\ statesGeoJSON' = features
    /\ UNCHANGED <<combosFetch, initPc, combinationsData, stats, layout,
                   statesLayer, allStateNames, selectedComboIndex,
                   selectedStates, listVars, infoPanel, searchVars, timers,
                   viewport, pointer>>

\* loadStatesGeoJSON: the fetch or the parse fails; the promise rejects.
loadStatesGeoJSONFails ==
    /\ statesFetch = "pending"
    /\ statesFetch' = "rejected"
    /\ UNCHANGED <<combosFetch, initPc, statesGeoJSON, combinationsData,
                   stats, layout, statesLayer, allStateNames,
                   selectedComboIndex, selectedStates, listVars, infoPanel,
                   searchVars, timers, viewport, pointer>>

\* loadCombinations: the fetch and the parse succeed with file data.
loadCombinations(data) ==
    /\ combosFetch = "pending"
    /\ combosFetch' = "fulfilled"
    /\ combinationsData' = data
    /\ stats' = [greenlandArea |-> data.greenland_km2,
                 comboCount |-> Len(data.combinations)]
    /\ UNCHANGED <<statesFetch, initPc, statesGeoJSON, layout, statesLayer,
                   allStateNames, selectedComboIndex, selectedStates,
                   listVars, infoPanel, searchVars, timers, viewport,
                   pointer>>

\* loadCombinations: the fetch or the parse fails; the promise rejects.
loadCombinationsFails ==
    /\ combosFetch = "pending"
    /\ combosFetch' = "rejected"
    /\ UNCHANGED <<statesFetch, initPc, statesGeoJSON, combinationsData,
                   stats, layout, statesLayer, allStateNames,
                   selectedComboIndex, selectedStates, listVars, infoPanel,
                   searchVars, timers, viewport, pointer>>

\* init that goes on as soon as the geometry is loaded, without awaiting
\* the combinations: the list is rendered only when they are there.
initContinuesEarly ==
    /\ initPc = "awaiting"
    /\ statesFetch = "fulfilled"
    /\ combosFetch # "rejected"
    /\ initPc' = "done"
    /\ allStateNames' = sort(lower48(statesGeoJSON))
    /\ statesLayer' = [name \in Range(lower48(statesGeoJSON)) |-> defaultStyle]
    /\ viewport' = [fit |-> Range(lower48(statesGeoJSON)), padding |-> 0]
    /\ IF combosFetch = "fulfilled"
       THEN /\ rows' = renderedRows(combinationsData, selectedStates,
                                    selectedComboIndex)
            /\ headerText' = renderedHeader(combinationsData, selectedStates)
       ELSE UNCHANGED <<rows, headerText>>
    /\ UNCHANGED <<statesFetch, combosFetch, statesGeoJSON,
                   combinationsData, stats, layout, selectedComboIndex,
                   selectedStates, filterTags, filterTotal, infoPanel,
                   searchVars, timers, pointer>>

\* init after its await, both loads fulfilled: renderStates,
\* renderCombinations, setupEventListeners.
initContinues ==
    /\ initPc = "awaiting"
    /\ statesFetch = "fulfilled"
    /\ combosFetch = "fulfilled"
    /\ initPc' = "done"
    /\ allStateNames' = sort(lower48(statesGeoJSON))
    /\ statesLayer' = [name \in Range(lower48(statesGeoJSON)) |-> defaultStyle]
    /\ viewport' = [fit |-> Range(lower48(statesGeoJSON)), padding |-> 0]
    /\ rows' = renderedRows(combinationsData, selectedStates,
                            selectedComboIndex)
    /\ headerText' = renderedHeader(combinationsData, selectedStates)
    /\ UNCHANGED <<statesFetch, combosFetch, statesGeoJSON,
                   combinationsData, stats, layout, selectedComboIndex,
                   selectedStates, filterTags, filterTotal, infoPanel,
                   searchVars, timers, pointer>>

\* init after its await, a load rejected: Promise.all rejects, the await
\* throws, and the promise of init rejects with nobody handling it.
initRejects ==
    /\ initPc = "awaiting"
    /\ statesFetch = "rejected" \/ combosFetch = "rejected"
    /\ initPc' = "rejected"
    /\ UNCHANGED <<statesFetch, combosFetch, statesGeoJSON,
                   combinationsData, stats, layout, statesLayer,
                   allStateNames, selectedComboIndex, selectedStates,
                   listVars, infoPanel, searchVars, timers, viewport,
                   pointer>>

-----------------------------------------------------------------------------
(* The handlers of the map layers *)

\* The combination selected, when one is.
selectedCombo == combinationsData.combinations[selectedComboIndex + 1]

\* handleStateHover without the test for the selected combination.
handleStateHoverAlways(stateName) ==
    /\ statesLayer' = [statesLayer EXCEPT
                          ![stateName] = setStyle(@, hoverStyle)]
    /\ pointer' = stateName
    /\ UNCHANGED <<loadVars, layout, allStateNames, selectedComboIndex,
                   selectedStates, listVars, infoPanel, searchVars, timers,
                   viewport>>

\* handleStateHover, as the mouseover handler of the layer of stateName.
handleStateHover(stateName) ==
    /\ statesLayer' =
          IF selectedComboIndex # null
             /\ includes(selectedCombo.states, stateName)
          THEN statesLayer
          ELSE [statesLayer EXCEPT
                   ![stateName] = setStyle(@, hoverStyle)]
    /\ pointer' = stateName
    /\ UNCHANGED <<loadVars, layout, allStateNames, selectedComboIndex,
                   selectedStates, listVars, infoPanel, searchVars, timers,
                   viewport>>

\* handleStateOut, as the mouseout handler of the layer of stateName.
handleStateOut(stateName) ==
    /\ statesLayer' =
          IF selectedComboIndex # null
             /\ includes(selectedCombo.states, stateName)
          THEN statesLayer
          ELSE [statesLayer EXCEPT
                   ![stateName] = setStyle(@, defaultStyle)]
    /\ pointer' = nowhere
    /\ UNCHANGED <<loadVars, layout, allStateNames, selectedComboIndex,
                   selectedStates, listVars, infoPanel, searchVars, timers,
                   viewport>>

\* hideDropdown
hideDropdown ==
    /\ dropdownHidden' = TRUE
    /\ highlightedIndex' = -1

\* addStateFilter without the test for a state already in the filter.
addStateFilterAgain(stateName) ==
    /\ selectedStates' = Append(selectedStates, stateName)
    /\ filterTags' = selectedStates'
    /\ filterTotal' = updateFilterTotal(selectedStates')
    /\ rows' = renderedRows(combinationsData, selectedStates',
                            selectedComboIndex)
    /\ headerText' = renderedHeader(combinationsData, selectedStates')
    /\ statesLayer' = highlightFilteredStates(
                         statesLayer, selectedStates', selectedComboIndex)
    /\ searchValue' = <<>>
    /\ hideDropdown

\* addStateFilter: what it changes of the filter, the list, the map and the
\* search box.
addStateFilter(stateName) ==
    /\ IF ~includes(selectedStates, stateName)
       THEN /\ selectedStates' = Append(selectedStates, stateName)
            /\ filterTags' = selectedStates'
            /\ filterTotal' = updateFilterTotal(selectedStates')
            /\ rows' = renderedRows(combinationsData, selectedStates',
                                    selectedComboIndex)
            /\ headerText' = renderedHeader(combinationsData, selectedStates')
            /\ statesLayer' = highlightFilteredStates(
                                 statesLayer, selectedStates',
                                 selectedComboIndex)
       ELSE UNCHANGED <<selectedStates, listVars, statesLayer>>
    /\ searchValue' = <<>>
    /\ hideDropdown

\* handleStateClick, as the click handler of the layer of stateName.
handleStateClick(stateName) ==
    /\ addStateFilter(stateName)
    /\ UNCHANGED <<loadVars, layout, allStateNames, selectedComboIndex,
                   infoPanel, focused, dropdownItems, timers, viewport,
                   pointer>>

\* removeStateFilter taking out the first state of the filter.
withoutFirst(sel, stateName) == Tail(sel)

\* removeStateFilter: selectedStates.filter(s => s !== stateName)
withoutState(sel, stateName) == SelectSeq(sel, LAMBDA s : s # stateName)

\* removeStateFilter without its call of renderCombinations.
removeStateFilterStale(stateName) ==
    /\ selectedStates' = SelectSeq(selectedStates, LAMBDA s : s # stateName)
    /\ filterTags' = selectedStates'
    /\ filterTotal' = updateFilterTotal(selectedStates')
    /\ statesLayer' = highlightFilteredStates(statesLayer, selectedStates',
                                              selectedComboIndex)
    /\ UNCHANGED <<loadVars, layout, allStateNames, selectedComboIndex,
                   rows, headerText, infoPanel, searchVars, timers,
                   viewport, pointer>>

\* removeStateFilter that keeps only the passing combinations in
\* combinationsData.
removeStateFilterNarrowing(stateName) ==
    /\ selectedStates' = SelectSeq(selectedStates, LAMBDA s : s # stateName)
    /\ filterTags' = selectedStates'
    /\ filterTotal' = updateFilterTotal(selectedStates')
    /\ combinationsData' =
          [combinationsData EXCEPT !.combinations =
              SelectSeq(@, LAMBDA combo : passes(combo, selectedStates'))]
    /\ rows' = renderedRows(combinationsData', selectedStates',
                            selectedComboIndex)
    /\ headerText' = renderedHeader(combinationsData', selectedStates')
    /\ statesLayer' = highlightFilteredStates(statesLayer, selectedStates',
                                              selectedComboIndex)
    /\ UNCHANGED <<statesFetch, combosFetch, initPc, statesGeoJSON, stats,
                   layout, allStateNames, selectedComboIndex, infoPanel,
                   searchVars, timers, viewport, pointer>>

\* removeStateFilter, as the click handler of the button of a filter tag.
removeStateFilter(stateName) ==
    /\ selectedStates' = withoutState(selectedStates, stateName)
    /\ filterTags' = selectedStates'
    /\ filterTotal' = updateFilterTotal(selectedStates')
    /\ rows' = renderedRows(combinationsData, selectedStates',
                            selectedComboIndex)
    /\ headerText' = renderedHeader(combinationsData, selectedStates')
    /\ statesLayer' = highlightFilteredStates(statesLayer, selectedStates',
                                              selectedComboIndex)
    /\ UNCHANGED <<loadVars, layout, allStateNames, selectedComboIndex,
                   infoPanel, searchVars, timers, viewport, pointer>>

\* The click handler of #clear-search clearing the selection as well.
clearSearchClickAll ==
    /\ searchValue' = <<>>
    /\ selectedStates' = <<>>
    /\ selectedComboIndex' = null
    /\ filterTags' = selectedStates'
    /\ filterTotal' = updateFilterTotal(selectedStates')
    /\ rows' = renderedRows(combinationsData, selectedStates',
                            selectedComboIndex')
    /\ headerText' = renderedHeader(combinationsData, selectedStates')
    /\ statesLayer' = highlightFilteredStates(statesLayer, selectedStates',
                                              selectedComboIndex')
    /\ UNCHANGED <<loadVars, layout, allStateNames, infoPanel, focused,
                   dropdownItems, dropdownHidden, highlightedIndex, timers,
                   viewport, pointer>>

\* The click handler of #clear-search.
clearSearchClick ==
    /\ searchValue' = <<>>
    /\ selectedStates' = <<>>
    /\ filterTags' = selectedStates'
    /\ filterTotal' = updateFilterTotal(selectedStates')
    /\ rows' = renderedRows(combinationsData, selectedStates',
                            selectedComboIndex)
    /\ headerText' = renderedHeader(combinationsData, selectedStates')
    /\ statesLayer' = highlightFilteredStates(statesLayer, selectedStates',
                                              selectedComboIndex)
    /\ UNCHANGED <<loadVars, layout, allStateNames, selectedComboIndex,
                   infoPanel, focused, dropdownItems, dropdownHidden,
                   highlightedIndex, timers, viewport, pointer>>

-----------------------------------------------------------------------------
(* Selection *)

\* document.querySelector('.combo-item[data-index="idx"]'): the position
\* of the first such row, or 0 when there is none.
queryRow(items, idx) ==
    LET found == {k \in DOMAIN items : items[k].index = idx}
    IN  IF found = {} THEN 0
        ELSE CHOOSE k \in found : \A j \in found : k <= j

\* classList.remove('selected') / classList.add('selected') on that row.
setRowClass(items, idx, on) ==
    LET k == queryRow(items, idx)
    IN  IF k = 0 THEN items ELSE [items EXCEPT ![k].selected = on]

\* The click handler of a tab of #mobile-tabs.
tabClicked(lay, view) ==
    [mobile |-> lay.mobile,
     mapHidden |-> (view = "list"),
     sidebarHidden |-> (view # "list"),
     activeTab |-> view]

\* A pending setTimeout callback: the deferred fitBounds of
\* selectCombination on the group of layers, or the deferred hideDropdown.
fitTimer(group) == [kind |-> "fit", delay |-> FIT_DELAY, group |-> group]
hideTimer == [kind |-> "hide", delay |-> HIDE_DELAY, group |-> {}]

\* selectCombination that keeps the styles of the previous selection.
selectCombinationNoReset(idx) ==
    LET combo == combinationsData.combinations[idx + 1]
        unmarked == IF selectedComboIndex # null
                    THEN setRowClass(rows, selectedComboIndex, FALSE)
                    ELSE rows
        group == selectedLayers(statesLayer, combo)
    IN  /\ selectedComboIndex' = idx
        /\ statesLayer' = highlightCombination(statesLayer, combo)
        /\ rows' = setRowClass(unmarked, idx, TRUE)
        /\ infoPanel' = [hidden |-> FALSE, states |-> combo.states,
                         area |-> combo.total_km2]
        /\ IF group # {}
           THEN /\ layout' = IF layout.mobile
                             THEN tabClicked(layout, "map") ELSE layout
                /\ timers' = Append(timers, fitTimer(group))
           ELSE UNCHANGED <<layout, timers>>
        /\ UNCHANGED <<loadVars, allStateNames, selectedStates, headerText,
                       filterTags, filterTotal, searchVars, viewport,
                       pointer>>

\* selectCombination, as the click handler of the row of combination idx.
selectCombination(idx) ==
    LET combo == combinationsData.combinations[idx + 1]
        reset == IF selectedComboIndex # null
                 THEN resetMapStyles(statesLayer) ELSE statesLayer
        unmarked == IF selectedComboIndex # null
                    THEN setRowClass(rows, selectedComboIndex, FALSE)
                    ELSE rows
        group == selectedLayers(statesLayer, combo)
    IN  /\ selectedComboIndex' = idx
        /\ statesLayer' = highlightCombination(reset, combo)
        /\ rows' = setRowClass(unmarked, idx, TRUE)
        /\ infoPanel' = [hidden |-> FALSE, states |-> combo.states,
                         area |-> combo.total_km2]
        /\ IF group # {}
           THEN /\ layout' = IF layout.mobile
                             THEN tabClicked(layout, "map") ELSE layout
                /\ timers' = Append(timers, fitTimer(group))
           ELSE UNCHANGED <<layout, timers>>
        /\ UNCHANGED <<loadVars, allStateNames, selectedStates, headerText,
                       filterTags, filterTotal, searchVars, viewport,
                       pointer>>

\* clearSelection without its call of highlightFilteredStates.
clearSelectionNoHighlight ==
    /\ rows' = IF selectedComboIndex # null
               THEN setRowClass(rows, selectedComboIndex, FALSE) ELSE rows
    /\ selectedComboIndex' = null
    /\ statesLayer' = resetMapStyles(statesLayer)
    /\ infoPanel' = [infoPanel EXCEPT !.hidden = TRUE]
    /\ viewport' = [fit |-> DOMAIN statesLayer, padding |-> 0]
    /\ UNCHANGED <<loadVars, layout, allStateNames, selectedStates,
                   headerText, filterTags, filterTotal, searchVars, timers,
                   pointer>>

\* clearSelection, as the click handler of #clear-selection.
clearSelection ==
    /\ rows' = IF selectedComboIndex # null
               THEN setRowClass(rows, selectedComboIndex, FALSE) ELSE rows
    /\ selectedComboIndex' = null
    /\ statesLayer' = highlightFilteredStates(resetMapStyles(statesLayer),
                                              selectedStates, null)
    /\ infoPanel' = [infoPanel EXCEPT !.hidden = TRUE]
    /\ viewport' = [fit |-> DOMAIN statesLayer, padding |-> 0]
    /\ UNCHANGED <<loadVars, layout, allStateNames, selectedStates,
                   headerText, filterTags, filterTotal, searchVars, timers,
                   pointer>>

\* The click handler of the tab of view, on a narrow window.
tabClick(view) ==
    /\ layout' = tabClicked(layout, view)
    /\ UNCHANGED <<loadVars, statesLayer, allStateNames, selectedComboIndex,
                   selectedStates, listVars, infoPanel, searchVars, timers,
                   viewport, pointer>>

-----------------------------------------------------------------------------
(* Timer callbacks *)

\* A timer runs no earlier than the timers set before it with a delay that
\* is not longer.
mayRun(i) == \A j \in 1..(i - 1) : timers[j].delay > timers[i].delay

removeAt(s, i) == SubSeq(s, 1, i - 1) \o SubSeq(s, i + 1, Len(s))

\* The callback of selectCombination's setTimeout: invalidateSize and
\* fitBounds on the bounds of the group.
fitCallback(i) ==
    /\ timers[i].kind = "fit"
    /\ mayRun(i)
    /\ viewport' = [fit |-> timers[i].group, padding |-> 50]
    /\ timers' = removeAt(timers, i)
    /\ UNCHANGED <<loadVars, layout, statesLayer, allStateNames,
                   selectedComboIndex, selectedStates, listVars, infoPanel,
                   searchVars, pointer>>

\* A deferred hideDropdown that also empties the search box.
hideCallbackClearing(i) ==
    /\ timers[i].kind = "hide"
    /\ mayRun(i)
    /\ hideDropdown
    /\ searchValue' = <<>>
    /\ timers' = removeAt(timers, i)
    /\ UNCHANGED <<loadVars, layout, statesLayer, allStateNames,
                   selectedComboIndex, selectedStates, listVars, infoPanel,
                   focused, dropdownItems, viewport, pointer>>

\* The callback of the blur handler's setTimeout: hideDropdown.
hideCallback(i) ==
    /\ timers[i].kind = "hide"
    /\ mayRun(i)
    /\ hideDropdown
    /\ timers' = removeAt(timers, i)
    /\ UNCHANGED <<loadVars, layout, statesLayer, allStateNames,
                   selectedComboIndex, selectedStates, listVars, infoPanel,
                   searchValue, focused, dropdownItems, viewport, pointer>>

-----------------------------------------------------------------------------
(* The typeahead *)

\* showDropdown(query), when highlightedIndex is hi at the call.
showDropdown(query, hi) ==
    IF Len(matches(allStateNames, query, selectedStates)) = 0 \/ query = <<>>
    THEN /\ hideDropdown
         /\ UNCHANGED dropdownItems
    ELSE /\ dropdownItems' = dropdownOffer(allStateNames, query,
                                           selectedStates, hi)
         /\ dropdownHidden' = FALSE
         /\ highlightedIndex' = hi

\* The input handler of #state-search: the user has changed the text of the
\* box to value.
searchInput(value) ==
    /\ searchValue' = value
    /\ showDropdown(trim(value), -1)
    /\ UNCHANGED <<loadVars, layout, statesLayer, allStateNames,
                   selectedComboIndex, selectedStates, listVars, infoPanel,
                   focused, timers, viewport, pointer>>

\* The keydown handler of #state-search, for the keys it acts on.
searchKeydown(key) ==
    /\ Len(dropdownItems) # 0
    /\ CASE key = "ArrowDown" ->
              /\ highlightedIndex' =
                    Min(highlightedIndex + 1, Len(dropdownItems) - 1)
              /\ dropdownItems' =
                    updateDropdownHighlight(dropdownItems, highlightedIndex')
              /\ UNCHANGED <<selectedStates, listVars, statesLayer,
                             searchValue, dropdownHidden>>
         [] key = "ArrowUp" ->
              /\ highlightedIndex' = Max(highlightedIndex - 1, 0)
              /\ dropdownItems' =
                    updateDropdownHighlight(dropdownItems, highlightedIndex')
              /\ UNCHANGED <<selectedStates, listVars, statesLayer,
                             searchValue, dropdownHidden>>
         [] key = "Enter" ->
              /\ highlightedIndex >= 0
              /\ highlightedIndex < Len(dropdownItems)
              /\ addStateFilter(dropdownItems[highlightedIndex + 1].text)
              /\ UNCHANGED dropdownItems
         [] key = "Escape" ->
              /\ hideDropdown
              /\ UNCHANGED <<selectedStates, listVars, statesLayer,
                             searchValue, dropdownItems>>
    /\ UNCHANGED <<loadVars, layout, allStateNames, selectedComboIndex,
                   infoPanel, focused, timers, viewport, pointer>>

\* The blur handler of #state-search.
searchBlur ==
    /\ focused' = FALSE
    /\ timers' = Append(timers, hideTimer)
    /\ UNCHANGED <<loadVars, layout, statesLayer, allStateNames,
                   selectedComboIndex, selectedStates, listVars, infoPanel,
                   searchValue, dropdownItems, dropdownHidden,
                   highlightedIndex, viewport, pointer>>

\* The focus handler of #state-search.
searchFocus ==
    /\ focused' = TRUE
    /\ IF trim(searchValue) # <<>>
       THEN showDropdown(trim(searchValue), highlightedIndex)
       ELSE UNCHANGED <<dropdownItems, dropdownHidden, highlightedIndex>>
    /\ UNCHANGED <<loadVars, layout, statesLayer, allStateNames,
                   selectedComboIndex, selectedStates, listVars, infoPanel,
                   searchValue, timers, viewport, pointer>>

\* The click handler of the dropdown item at position idx.
dropdownItemClick(idx) ==
    /\ addStateFilter(dropdownItems[idx + 1].text)
    /\ UNCHANGED <<loadVars, layout, allStateNames, selectedComboIndex,
                   infoPanel, focused, dropdownItems, timers, viewport,
                   pointer>>

\* The mouseenter handler of the dropdown item at position idx.
dropdownItemMouseenter(idx) ==
    /\ highlightedIndex' = idx
    /\ dropdownItems' = updateDropdownHighlight(dropdownItems, idx)
    /\ UNCHANGED <<loadVars, layout, statesLayer, allStateNames,
                   selectedComboIndex, selectedStates, listVars, infoPanel,
                   searchValue, focused, dropdownHidden, timers, viewport,
                   pointer>>

\* The search box before setupEventListeners has run, or when it never
\* runs: the box takes the focus and the text, and no handler runs.
boxWithoutListeners(value, focus) ==
    /\ initPc # "done"
    /\ searchValue' = value
    /\ focused' = focus
    /\ UNCHANGED <<loadVars, layout, statesLayer, allStateNames,
                   selectedComboIndex, selectedStates, listVars, infoPanel,
                   dropdownItems, dropdownHidden, highlightedIndex, timers,
                   viewport, pointer>>

-----------------------------------------------------------------------------
(* The environment: which event can happen when *)

\* Texts the user leaves in the search box.
InputValues == {<<>>, <<"a">>, <<" ", "I", "O", " ">>}
\* The same, and a text no state name contains.
MoreInputValues == InputValues \cup {<<"z">>}

\* The rows the user clicks: the first ones and the last.
MaxRowClick == 2
RowPositions == {k \in DOMAIN rows : k <= MaxRowClick \/ k = Len(rows)}

\* The handlers are installed.
ready == initPc = "done"
\* The pointer is off the map.
offMap == pointer = nowhere
\* No deferred fitBounds is pending.
fitted == \A i \in DOMAIN timers : timers[i].kind # "fit"

\* The layers of the map, once renderStates has added them.
layers == IF initPc = "done" THEN DOMAIN statesLayer ELSE {}

\* The filter takes stateName without exceeding the bound of the model.
canAdd(stateName, limit) ==
    includes(selectedStates, stateName) \/ Len(selectedStates) < limit

\* The loads of init, for the geometry and combination files given.
Loads(geometries, combinations) ==
    \/ \E g \in geometries : loadStatesGeoJSON(g)
    \/ loadStatesGeoJSONFails
    \/ \E c \in combinations : loadCombinations(c)
    \/ loadCombinationsFails
    \/ initContinues
    \/ initRejects

\* The pointer enters a layer or leaves it.
HoverEvents(go) ==
    \/ \E s \in layers : go /\ ready /\ offMap /\ handleStateHover(s)
    \/ \E s \in layers : go /\ ready /\ pointer = s /\ handleStateOut(s)

\* A click on the layer under the pointer; a click outside the search box
\* takes the focus from it first.
MapClicks(go) ==
    \E s \in layers :
        go /\ ready /\ pointer = s /\ ~focused /\ canAdd(s, MaxFilter)
        /\ handleStateClick(s)

\* Clicks on the rows of the list and on #clear-selection.
SelectionEvents(go) ==
    \/ \E k \in RowPositions :
          go /\ ready /\ offMap /\ ~focused /\ Len(timers) < MaxTimers
          /\ selectCombination(rows[k].index)
    \/ go /\ ready /\ offMap /\ ~focused /\ clearSelection

\* Clicks on the buttons of the filter tags and on #clear-search.
FilterEvents(go) ==
    \/ \E s \in Range(filterTags) :
          go /\ ready /\ offMap /\ ~focused /\ removeStateFilter(s)
    \/ go /\ ready /\ offMap /\ ~focused /\ clearSearchClick

\* The search box and its dropdown, with the texts of values typed.
SearchEvents(go, values, limit) ==
    \/ go /\ ready /\ ~focused /\ searchFocus
    \/ go /\ ready /\ focused /\ Len(timers) < MaxTimers /\ searchBlur
    \/ \E v \in values :
          go /\ ready /\ focused /\ v # searchValue /\ searchInput(v)
    \/ \E key \in {"ArrowDown", "ArrowUp", "Enter", "Escape"} :
          /\ go /\ ready /\ focused
          /\ key = "Enter" /\ highlightedIndex \in 0..(Len(dropdownItems) - 1)
                => canAdd(dropdownItems[highlightedIndex + 1].text, limit)
          /\ searchKeydown(key)
    \/ \E idx \in 0..(Len(dropdownItems) - 1) :
          go /\ ready /\ offMap /\ ~focused /\ ~dropdownHidden
          /\ canAdd(dropdownItems[idx + 1].text, limit)
          /\ dropdownItemClick(idx)
    \/ \E idx \in 0..(Len(dropdownItems) - 1) :
          go /\ ready /\ offMap /\ ~dropdownHidden
          /\ dropdownItemMouseenter(idx)

\* The search box while no handler is installed.
BoxEvents(values) ==
    \E v \in values, f \in BOOLEAN :
        /\ v # searchValue => focused /\ f
        /\ <<v, f>> # <<searchValue, focused>>
        /\ boxWithoutListeners(v, f)

\* The tabs of a narrow window.
TabEvents(go) ==
    \E view \in {"list", "map"} :
        go /\ ready /\ layout.mobile /\ offMap /\ ~focused /\ tabClick(view)

Timers ==
    \/ \E i \in DOMAIN timers : fitCallback(i)
    \/ \E i \in DOMAIN timers : hideCallback(i)

-----------------------------------------------------------------------------
(* Specifications *)

Init == InitOn({FALSE})

\* The whole viewer in a wide window, on the shipped geometry and a short
\* combinations file; the user acts once the deferred fit of a selection
\* has run.
Next ==
    \/ Loads({StandardGeometry}, {SmallCombinations})
    \/ HoverEvents(fitted)
    \/ MapClicks(fitted)
    \/ SelectionEvents(fitted)
    \/ FilterEvents(fitted)
    \/ SearchEvents(fitted, InputValues, MaxFilter)
    \/ BoxEvents(InputValues)
    \/ Timers

Spec == Init /\ [][Next]_vars

\* The map and the list without the search box, in wide and narrow
\* windows, on geometry files without and with a territory; the user acts
\* at any time, also while deferred callbacks are pending.
MapNext ==
    \/ Loads({StandardGeometry, TerritoryGeometry}, {SmallCombinations})
    \/ HoverEvents(TRUE)
    \/ MapClicks(TRUE)
    \/ SelectionEvents(TRUE)
    \/ FilterEvents(TRUE)
    \/ TabEvents(TRUE)
    \/ \E i \in DOMAIN timers : fitCallback(i)

MapSpec == InitOn(BOOLEAN) /\ [][MapNext]_vars

\* The list on a combinations file longer than the row limit.
BigListNext ==
    \/ Loads({StandardGeometry}, {BigCombinations})
    \/ HoverEvents(fitted)
    \/ MapClicks(fitted)
    \/ SelectionEvents(fitted)
    \/ FilterEvents(fitted)
    \/ \E i \in DOMAIN timers : fitCallback(i)

BigListSpec == Init /\ [][BigListNext]_vars

\* The search box on a geometry file with more states than the dropdown
\* offers; the filter changes by the dropdown and the filter buttons.
SearchNext ==
    \/ Loads({WideGeometry}, {SmallCombinations})
    \/ FilterEvents(TRUE)
    \/ SearchEvents(TRUE, MoreInputValues, MaxWideFilter)
    \/ BoxEvents(MoreInputValues)
    \/ \E i \in DOMAIN timers : hideCallback(i)

SearchSpec == Init /\ [][SearchNext]_vars

\* The list and the map on the files the enumerator writes from the
\* adjacency graph.
EnumeratedNext ==
    \/ Loads({GraphGeometry}, EnumeratedCombinations)
    \/ HoverEvents(fitted)
    \/ SelectionEvents(TRUE)
    \/ \E i \in DOMAIN timers : fitCallback(i)

EnumeratedSpec == Init /\ [][EnumeratedNext]_vars

-----------------------------------------------------------------------------
(* Properties *)

\* The loaded combinations, and the indices of those that hold every state
\* of the filter.
combos == combinationsData.combinations
Passing ==
    {i \in 0..(Len(combos) - 1) :
        Range(selectedStates) \subseteq Range(combos[i + 1].states)}
RowIndices == {rows[k].index : k \in DOMAIN rows}

\* C1: a combination passes the filter of renderCombinations if and only
\* if its states hold every state of selectedStates; with selectedStates
\* empty every loaded combination passes. Seen after every render in the
\* header count and, the list being short, in the rows.
C1_FilterKeepsSupersets ==
    ready =>
        /\ headerText.count = Cardinality(Passing)
        /\ Len(combos) <= 500 => RowIndices = Passing
        /\ selectedStates = <<>> => headerText.count = Len(combos)

\* A filter of two states that one combination holds and two do not.
C1_Witness ==
    /\ ready
    /\ selectedStates = <<"Utah", "Iowa">>
    /\ RowIndices = {2}
    /\ headerText.count = 1

\* C2: after every render the list shows at most 500 rows, and they are the
\* first min(n, 500) of the n passing combinations in the order of the
\* loaded list.
C2_FirstFiveHundred ==
    ready =>
        LET passing == Passing
            shown == RowIndices
        IN  /\ Len(rows) <= 500
            /\ Len(rows) = Min(Cardinality(passing), 500)
            /\ shown \subseteq passing
            /\ \A k \in 1..(Len(rows) - 1) : rows[k].index < rows[k + 1].index
            /\ rows # <<>> =>
                  {i \in passing : i <= rows[Len(rows)].index} = shown

\* More than 500 combinations pass a filter that one of the first does
\* not pass, and 500 rows are shown.
C2_Witness ==
    /\ ready
    /\ selectedStates = <<"Ohio">>
    /\ Cardinality(Passing) > 500
    /\ Len(rows) = 500
    /\ rows[2].index = 2

\* C3: in every state left by a handler, the rows, the header and the
\* filter tags are those of the current selectedStates.
C3_ListFollowsFilter ==
    ready =>
        /\ Len(rows) = Len(toRender(combinationsData, selectedStates))
        /\ \A k \in DOMAIN rows :
              /\ rows[k].index =
                    toRender(combinationsData, selectedStates)[k]
              /\ rows[k].states = combos[rows[k].index + 1].states
        /\ headerText.count = Cardinality(Passing)
        /\ headerText.containing = selectedStates
        /\ filterTags = selectedStates

\* Iowa is in the filter after another state was added and removed: the
\* layer of that state still has the filter highlight.
C3_Witness ==
    /\ ready
    /\ selectedStates = <<"Iowa">>
    /\ filterTags = <<"Iowa">>
    /\ RowIndices = {0, 2}
    /\ \E name \in DOMAIN statesLayer :
          name # "Iowa" /\ statesLayer[name].fillOpacity = 4

\* C4: once combinations.json is loaded, no handler and no timer callback
\* changes combinationsData.
C4_CombinationsFrozen ==
    [][combosFetch = "fulfilled" => combinationsData' = combinationsData]_vars

\* Filters were added and removed, a combination was selected and its
\* deferred fit has run.
C4_Witness ==
    /\ ready
    /\ selectedComboIndex = 2
    /\ selectedStates = <<"Utah">>
    /\ viewport.padding = 50
    /\ timers = <<>>
    /\ \E name \in DOMAIN statesLayer :
          name # "Utah" /\ statesLayer[name].fillOpacity = 4

\* The layers that carry the selected style.
SelectedStyled(layer) == {name \in DOMAIN layer : layer[name] = selectedStyle}

\* C5: when selectCombination(idx) returns, selectedComboIndex is idx and
\* the layers with the selected style are exactly those of the states of
\* combination idx.
C5_SelectionStyled ==
    [][ready =>
         \A idx \in 0..(Len(combos) - 1) :
            selectCombination(idx) =>
               /\ selectedComboIndex' = idx
               /\ SelectedStyled(statesLayer') =
                     {name \in DOMAIN statesLayer' :
                         name \in Range(combos[idx + 1].states)}]_vars

\* Combination 1 is selected right after combination 0: both deferred fits
\* are pending, and Iowa, of combination 0 only, is back to the default.
C5_Witness ==
    /\ ready
    /\ selectedComboIndex = 1
    /\ Len(timers) = 2
    /\ timers[1].group = {"Iowa", "Ohio"}
    /\ timers[2].group = {"Ohio", "Utah"}
    /\ SelectedStyled(statesLayer) = {"Ohio", "Utah"}
    /\ statesLayer["Iowa"] = defaultStyle

\* C6, as claimed: once no deferred callback is pending, the last fit of
\* the viewport is that of the current selection: the member layers of the
\* selected combination, or all layers when nothing is selected.
C6_ViewportFollowsSelection ==
    (ready /\ timers = <<>>) =>
        viewport.fit =
            IF selectedComboIndex # null
            THEN {name \in DOMAIN statesLayer :
                     name \in Range(selectedCombo.states)}
            ELSE DOMAIN statesLayer

\* C7, as claimed: when a load fails, init ends without an uncaught error,
\* with the handlers installed and an empty list shown.
C7_FailedLoadDegrades ==
    ((statesFetch = "rejected" \/ combosFetch = "rejected")
        /\ initPc # "awaiting")
    => (initPc = "done" /\ rows = <<>>)

\* A step in which a deferred callback runs: no handler removes a timer.
TimerRuns == Len(timers') < Len(timers)

\* C8, as claimed: no deferred callback changes selectedComboIndex,
\* selectedStates, highlightedIndex, the visibility of the dropdown or the
\* viewport.
C8_NoDeferredChange ==
    [][TimerRuns =>
         UNCHANGED <<selectedComboIndex, selectedStates, highlightedIndex,
                     dropdownHidden, viewport>>]_vars

\* C8, amended: a deferred callback changes neither the selection, the
\* filter, the list, the layer styles nor the search box; it changes the
\* viewport (the deferred fitBounds) or the visibility of the dropdown and
\* highlightedIndex (the deferred hideDropdown), and nothing else.
C8_DeferredChangesOnlyViewOrDropdown ==
    [][TimerRuns =>
         /\ UNCHANGED <<selectedComboIndex, selectedStates, listVars,
                        statesLayer, infoPanel, layout, searchValue,
                        focused, dropdownItems, allStateNames, loadVars>>
         /\ \/ UNCHANGED viewport
            \/ UNCHANGED <<dropdownHidden, highlightedIndex>>]_vars

\* The deferred hideDropdown of a blur is pending while the box has the
\* focus again and shows the dropdown with an item highlighted: the
\* callback will run after later events and change both.
C8_Witness ==
    /\ ready
    /\ timers # <<>>
    /\ timers[1].kind = "hide"
    /\ focused
    /\ ~dropdownHidden
    /\ highlightedIndex >= 0

\* The place of each character in the alphabet, whatever its case; the
\* space has place 0.
LetterOf ==
    [c \in Alphabet |->
        IF c = " " THEN 0
        ELSE CHOOSE k \in DOMAIN UpperCase :
                 c = UpperCase[k] \/ c = LowerCase[k]]

\* Two characters are the same letter, whatever their case.
SameLetter(a, b) == LetterOf[a] = LetterOf[b]

\* The query occurs in the name as a substring, case ignored.
Contains(name, query) ==
    \E i \in 0..(Len(Chars(name)) - Len(query)) :
        \A j \in 1..Len(query) : SameLetter(Chars(name)[i + j], query[j])

\* The rendered state names that the query selects.
Matching(query) ==
    {name \in DOMAIN statesLayer :
        Contains(name, query) /\ name \notin Range(selectedStates)}

\* The state after showDropdown(query): the items are the first 8 of the
\* matching names in alphabetical order, or the dropdown is hidden when
\* the query is empty or matches no name.
DropdownShows(query) ==
    LET offer == Matching(query)
        shown == Len(dropdownItems)
    IN  IF query = <<>> \/ offer = {}
        THEN dropdownHidden /\ highlightedIndex = -1
        ELSE /\ ~dropdownHidden
             /\ shown = Min(Cardinality(offer), 8)
             /\ \A k \in 1..shown : dropdownItems[k].text \in offer
             /\ \A k \in 1..(shown - 1) :
                   strLess(Chars(dropdownItems[k].text),
                           Chars(dropdownItems[k + 1].text))
             /\ \A name \in offer :
                   \/ \E k \in 1..shown : dropdownItems[k].text = name
                   \/ strLess(Chars(dropdownItems[shown].text), Chars(name))

\* C9: showDropdown(query), called by the input and the focus handlers,
\* offers exactly the first 8 or fewer, in alphabetical order, of the
\* rendered names that contain the query, case ignored, and are not in
\* selectedStates; with an empty query or no match the dropdown is hidden
\* and highlightedIndex is -1.
C9_DropdownOffer ==
    [][ready =>
         /\ \A v \in MoreInputValues :
               searchInput(v) => DropdownShows(trim(v))'
         /\ (searchFocus /\ trim(searchValue) # <<>>) =>
               DropdownShows(trim(searchValue))']_vars

\* Nine names contain the text typed, and the dropdown offers eight.
C9_Witness ==
    /\ ready
    /\ searchValue = <<"a">>
    /\ Cardinality(Matching(<<"a">>)) = 9
    /\ ~dropdownHidden
    /\ Len(dropdownItems) = 8
    /\ dropdownItems[1].text = "Alabama"
    /\ dropdownItems[8].text = "Texas"

\* The names of the contiguous states: those stateAreas lists.
ContiguousStates == DOMAIN stateAreas

\* C10, as claimed: for every geometry file, the layers of the map and the
\* names of the typeahead are contiguous states only.
C10_OnlyContiguousStates ==
    ready =>
        /\ DOMAIN statesLayer \subseteq ContiguousStates
        /\ Range(allStateNames) \subseteq ContiguousStates

\* The states of group that paths of the adjacency graph inside group
\* join to the states seen.
RECURSIVE joined(_, _)
joined(group, seen) ==
    LET more == {s \in group \ seen :
                    \E t \in seen : s \in AdjacencyGraph[t]}
    IN  IF more = {} THEN seen ELSE joined(group, seen \cup more)

\* The induced subgraph on group is one connected component.
Connected(group) ==
    /\ group # {}
    /\ group \subseteq DOMAIN AdjacencyGraph
    /\ \A s \in group : joined(group, {s}) = group

\* C11: every combination the viewer lists, and the one it shows as
\* selected, is a set of states connected in the adjacency graph.
C11_ListedAreConnected ==
    ready =>
        /\ \A i \in DOMAIN combos : Connected(Range(combos[i].states))
        /\ \A k \in DOMAIN rows : Connected(Range(rows[k].states))
        /\ selectedComboIndex # null => Connected(Range(infoPanel.states))

\* A combination of three states is selected, from a file whose run had a
\* set of states within its tolerance that is not connected.
C11_Witness ==
    /\ ready
    /\ selectedComboIndex # null
    /\ Len(infoPanel.states) = 3
    /\ ~infoPanel.hidden
    /\ \E run \in EnumeratorRuns :
          /\ run.target = combinationsData.greenland_km2
          /\ \E group \in SUBSET DOMAIN AdjacencyGraph :
                /\ group # {}
                /\ ~Connected(group)
                /\ Cardinality(group) <= run.maxSize
                /\ totalArea(group) >= run.target - run.tolerance
                /\ totalArea(group) <= run.target + run.tolerance

\* C12: in either completion order of the two fetches, renderStates,
\* renderCombinations and setupEventListeners run only once both have
\* completed, and no hover, click or key handler acts before that: while
\* init has not gone on nothing a handler writes has been written, and
\* once it has, the layers and the combinations are there.
C12_HandlersAfterBothLoads ==
    /\ ready =>
          /\ statesFetch = "fulfilled"
          /\ combosFetch = "fulfilled"
          /\ DOMAIN statesLayer = Range(lower48(statesGeoJSON))
          /\ headerText.count <= Len(combinationsData.combinations)
    /\ ~ready =>
          /\ pointer = nowhere
          /\ selectedStates = <<>>
          /\ selectedComboIndex = null
          /\ timers = <<>>
          /\ dropdownItems = <<>>
          /\ dropdownHidden
          /\ rows = <<>>
          /\ filterTags = <<>>

\* Handlers of the map, of the list and of the search box have acted.
C12_Witness ==
    /\ ready
    /\ pointer # nowhere
    /\ selectedStates # <<>>
    /\ selectedComboIndex # null
    /\ dropdownItems # <<>>

\* A layer carries a style: each option the style names has its value.
Carries(options, style) == \A k \in DOMAIN style : options[k] = style[k]

\* The states of the combination selected.
Members == Range(selectedCombo.states)

\* C13: while a combination is selected, mouseover and mouseout on a
\* member state leave its style as it is; on another state mouseover sets
\* the hover style and mouseout the default style.
C13_HoverSparesMembers ==
    [][(ready /\ selectedComboIndex # null) =>
         \A s \in DOMAIN statesLayer :
            /\ handleStateHover(s) =>
                  IF s \in Members
                  THEN statesLayer'[s] = statesLayer[s]
                  ELSE Carries(statesLayer'[s], hoverStyle)
            /\ handleStateOut(s) =>
                  IF s \in Members
                  THEN statesLayer'[s] = statesLayer[s]
                  ELSE statesLayer'[s] = defaultStyle]_vars

\* The pointer is on Ohio, a member of the selected combination, which has
\* kept the selected style.
C13_Witness ==
    /\ ready
    /\ selectedComboIndex = 0
    /\ pointer = "Ohio"
    /\ statesLayer["Ohio"] = selectedStyle
    /\ statesLayer["Utah"] = defaultStyle

\* C14, as claimed: whenever a combination is selected, every layer of a
\* member state carries the selected style.
C14_MembersKeepSelectedStyle ==
    (ready /\ selectedComboIndex # null) =>
        \A s \in DOMAIN statesLayer :
            s \in Members => Carries(statesLayer[s], selectedStyle)

\* C15: when clearSelection returns, selectedComboIndex is null, the
\* selected-info panel is hidden, no row is marked selected, the layers of
\* the states of the filter carry the filter highlight style and all other
\* layers the default style.
C15_ClearSelectionResets ==
    [][(ready /\ clearSelection) =>
         /\ selectedComboIndex' = null
         /\ infoPanel'.hidden
         /\ \A k \in DOMAIN rows' : ~rows'[k].selected
         /\ \A s \in DOMAIN statesLayer' :
               IF s \in Range(selectedStates')
               THEN Carries(statesLayer'[s], filterStyle)
               ELSE statesLayer'[s] = defaultStyle]_vars

\* The selection of a combination has been cleared while Ohio is in the
\* filter: the panel still holds the states it showed.
C15_Witness ==
    /\ ready
    /\ selectedComboIndex = null
    /\ infoPanel.hidden
    /\ infoPanel.states = <<"Iowa", "Ohio">>
    /\ selectedStates = <<"Ohio">>
    /\ Carries(statesLayer["Ohio"], filterStyle)
    /\ statesLayer["Iowa"] = defaultStyle
    /\ \A k \in DOMAIN rows : ~rows[k].selected

\* C16, as claimed: while no combination is selected, every layer that is
\* not under the pointer carries the filter highlight style when its state
\* is in selectedStates and the default style when it is not.
C16_FilterHighlightKept ==
    (ready /\ selectedComboIndex = null) =>
        \A s \in DOMAIN statesLayer \ {pointer} :
            IF s \in Range(selectedStates)
            THEN Carries(statesLayer[s], filterStyle)
            ELSE statesLayer[s] = defaultStyle

\* C17: the header shows the number of the combinations that pass the
\* filter, not the number of rows: it is never less than the number of
\* rows, and it is greater when more than 500 combinations pass.
C17_HeaderCountsPassing ==
    ready =>
        LET passing == Cardinality(Passing)
        IN  /\ headerText.count = passing
            /\ headerText.count >= Len(rows)
            /\ passing > 500 => headerText.count > Len(rows)
            /\ passing <= 500 => headerText.count = Len(rows)

\* With Ohio in the filter 501 combinations pass: the header says so over
\* 500 rows.
C17_Witness ==
    /\ ready
    /\ headerText.containing = <<"Ohio">>
    /\ headerText.count = 501
    /\ Len(rows) = 500

\* C18: under any filter, the index a row carries is the position of its
\* combination in the loaded list, and a click on the row selects the
\* combination whose states and area the row displays.
C18_RowSelectsItsCombination ==
    [][ready =>
         \A k \in DOMAIN rows :
            /\ rows[k].index \in 0..(Len(combos) - 1)
            /\ combos[rows[k].index + 1].states = rows[k].states
            /\ combos[rows[k].index + 1].total_km2 = rows[k].area
            /\ selectCombination(rows[k].index) =>
                  /\ selectedComboIndex' = rows[k].index
                  /\ infoPanel'.states = rows[k].states
                  /\ infoPanel'.area = rows[k].area
                  /\ ~infoPanel'.hidden]_vars

\* With Utah in the filter the first row is that of combination 1, and a
\* click on it has selected combination 1.
C18_Witness ==
    /\ ready
    /\ selectedStates = <<"Utah">>
    /\ Len(rows) = 2
    /\ rows[1].index = 1
    /\ rows[1].selected
    /\ selectedComboIndex = 1
    /\ ~infoPanel.hidden
    /\ infoPanel.states = <<"Ohio", "Utah">>

\* No state occurs twice in the array.
NoDuplicates(arr) ==
    \A i, j \in DOMAIN arr : arr[i] = arr[j] => i = j

\* C19: selectedStates never holds a state twice; addStateFilter of a state
\* that is in the filter, here by a click on its layer, leaves
\* selectedStates, the filter tags, the list and the map styles as they
\* are, and empties the search box and hides the dropdown.
C19_NoStateTwice ==
    [][ready =>
         /\ NoDuplicates(selectedStates)
         /\ NoDuplicates(selectedStates')
         /\ \A s \in Range(selectedStates) :
               handleStateClick(s) =>
                  /\ UNCHANGED <<selectedStates, filterTags, filterTotal,
                                 rows, headerText, statesLayer>>
                  /\ searchValue' = <<>>
                  /\ dropdownHidden'
                  /\ highlightedIndex' = -1]_vars

\* The pointer is back on Utah, which is in the filter, and a click on it
\* has left the filter and the hover style of its layer as they were.
C19_Witness ==
    /\ ready
    /\ selectedStates = <<"Utah", "Iowa">>
    /\ pointer = "Utah"
    /\ Carries(statesLayer["Utah"], hoverStyle)
    /\ searchValue = <<>>
    /\ dropdownHidden

\* The orders in which the states of the array can have been added.
Orders(arr) ==
    {order \in [DOMAIN arr -> Range(arr)] : Range(order) = Range(arr)}

\* C20: for a state s that is not in the filter, addStateFilter(s), here
\* by a click on the layer of s, followed by removeStateFilter(s) gives
\* back selectedStates and the combinations that pass; removeStateFilter
\* takes out the state it is given and nothing else; and the combinations
\* that pass are the same for every order of the states of the filter.
C20_AddThenRemoveRestores ==
    [][ready =>
         /\ \A s \in DOMAIN statesLayer :
               (handleStateClick(s) /\ ~includes(selectedStates, s)) =>
                  /\ includes(selectedStates', s)
                  /\ withoutState(selectedStates', s) = selectedStates
                  /\ filtered(combinationsData,
                              withoutState(selectedStates', s))
                        = filtered(combinationsData, selectedStates)
         /\ \A s \in Range(selectedStates) :
               removeStateFilter(s) =>
                  /\ Range(selectedStates') = Range(selectedStates) \ {s}
                  /\ headerText'.count =
                        Len(filtered(combinationsData, selectedStates'))
         /\ \A order \in Orders(selectedStates') :
               Range(filtered(combinationsData, order))
                  = Range(filtered(combinationsData, selectedStates'))]_vars

\* Iowa has been added to the filter and removed from it while combination
\* 1 is selected: the filter is empty again, all combinations pass, and
\* the layer of Iowa still has the highlight the add gave it.
C20_Witness ==
    /\ ready
    /\ selectedComboIndex = 1
    /\ selectedStates = <<>>
    /\ headerText.count = 3
    /\ Len(rows) = 3
    /\ Carries(statesLayer["Iowa"], filterStyle)

\* The step is a filter event: a state added by a click on the map, on a
\* dropdown item or by Enter, a state removed, or all filters cleared.
FilterEvent ==
    \/ \E s \in DOMAIN statesLayer : handleStateClick(s)
    \/ \E idx \in 0..(Len(dropdownItems) - 1) : dropdownItemClick(idx)
    \/ searchKeydown("Enter")
    \/ \E s \in Range(selectedStates) : removeStateFilter(s)
    \/ clearSearchClick

\* The step is a selection event.
SelectionEvent ==
    \/ \E idx \in 0..(Len(combos) - 1) : selectCombination(idx)
    \/ clearSelection

\* Filter events leave the selection, selection events leave the filter.
FramesKept ==
    /\ FilterEvent => selectedComboIndex' = selectedComboIndex
    /\ SelectionEvent => selectedStates' = selectedStates

\* C21, as claimed: filter events leave selectedComboIndex and selection
\* events leave selectedStates unchanged, and the selected combination
\* always holds every state of selectedStates.
C21_SelectionPassesFilter ==
    [][ready =>
         /\ FramesKept
         /\ selectedComboIndex' # null =>
               Range(selectedStates')
                  \subseteq Range(combos[selectedComboIndex' + 1].states)]_vars

\* C21, amended: filter events leave selectedComboIndex and selection
\* events leave selectedStates unchanged; the selected combination stays
\* selected also when it does not hold every state of selectedStates.
C21_FilterAndSelectionApart ==
    [][ready => FramesKept]_vars

\* Combination 0, of Iowa and Ohio, is selected while Utah is in the
\* filter: its row is not in the list.
C21_Witness ==
    /\ ready
    /\ selectedComboIndex = 0
    /\ selectedStates = <<"Utah">>
    /\ ~infoPanel.hidden
    /\ \A k \in DOMAIN rows : rows[k].index # 0 /\ ~rows[k].selected

\* C22: a rendered row carries the selected mark if and only if its index
\* is selectedComboIndex; so at most one row is marked, and none when
\* selectedComboIndex is null, also after a filter change has rendered the
\* list again.
C22_MarkFollowsSelection ==
    ready =>
        /\ \A k \in DOMAIN rows :
              rows[k].selected <=> rows[k].index = selectedComboIndex
        /\ Cardinality({k \in DOMAIN rows : rows[k].selected}) <= 1
        /\ selectedComboIndex = null =>
              \A k \in DOMAIN rows : ~rows[k].selected

\* Combination 2 is selected and Utah is in the filter: of the two rows
\* rendered for the filter, the second is that of combination 2 and has
\* the mark.
C22_Witness ==
    /\ ready
    /\ selectedComboIndex = 2
    /\ selectedStates = <<"Utah">>
    /\ Len(rows) = 2
    /\ ~rows[1].selected
    /\ rows[2].index = 2
    /\ rows[2].selected

\* C23, as claimed: highlightedIndex is -1 or the index of a dropdown item
\* that exists, and it is -1 whenever the dropdown is hidden.
C23_HighlightInRange ==
    /\ highlightedIndex = -1
       \/ highlightedIndex \in 0..(Len(dropdownItems) - 1)
    /\ dropdownHidden => highlightedIndex = -1

=============================================================================
